---- MODULE Spec2Model ----
(***************************************************************************)
(* A model of src/chatbot.py: the Streamlit chat script, its conversation  *)
(* window truncation, the streamed-response assembly, the follow-up        *)
(* question synthesis and the welcome message.                             *)
(*                                                                         *)
(* Representation of Python values                                         *)
(*   text      a sequence of atoms; an atom is a whitespace character or a *)
(*             whitespace-free fragment, so s + t is s \o t and            *)
(*             len(s.split()) is the number of maximal whitespace-free     *)
(*             runs of atoms.                                              *)
(*   dict      a function from key strings (a TLA+ record); {} is <<>>.    *)
(*   list      a sequence.                                                 *)
(*   exception the name of the exception class, "none" when nothing is     *)
(*             raised.                                                     *)
(***************************************************************************)
EXTENDS Integers, Sequences, FiniteSets, TLC

VARIABLES
    messages,           \* st.session_state.messages
    suggestions,        \* st.session_state.suggestions
    follow_up_clicked,  \* st.session_state.follow_up_clicked
    init,               \* "init" in st.session_state
    rerun,              \* st.experimental_rerun() was called: a rerun is due
    welcome,            \* the generate_initial_message outcome of the session start
    crashed,            \* exception that ended the last script run, "none" otherwise
    clicked,            \* the suggestion a button appended, while its reply is awaited
    input,              \* argument of the function under test (unit specifications)
    output              \* its result

vars == <<messages, suggestions, follow_up_clicked, init, rerun, welcome,
          crashed, clicked, input, output>>

session_vars == <<messages, suggestions, follow_up_clicked, init, rerun,
                  welcome, crashed, clicked>>

----------------------------------------------------------------------------
(* Program constants, src/chatbot.py:12-13 *)

MAX_TOKENS == 4096

TOKEN_MARGIN == 512

----------------------------------------------------------------------------
(* Text helpers: str.split, str.strip *)

Whitespace == {" ", "\n"}

IsSpace(a) == a \in Whitespace

\* len(s.split()): the number of whitespace-delimited words of s
SplitLen(s) ==
    Cardinality({i \in 1..Len(s) : ~IsSpace(s[i]) /\ (i = 1 \/ IsSpace(s[i - 1]))})

RECURSIVE lstrip(_)
lstrip(s) == IF s # <<>> /\ IsSpace(Head(s)) THEN lstrip(Tail(s)) ELSE s

RECURSIVE rstrip(_)
rstrip(s) ==
    IF s # <<>> /\ IsSpace(s[Len(s)]) THEN rstrip(SubSeq(s, 1, Len(s) - 1)) ELSE s

\* s.strip()
strip(s) == rstrip(lstrip(s))

Message(role, content) == [role |-> role, content |-> content]

----------------------------------------------------------------------------
(* truncate_messages, src/chatbot.py:145-158.  The budget is read from the *)
(* module globals MAX_TOKENS and TOKEN_MARGIN; it is a parameter here so   *)
(* that the walk can be exercised with budgets a short log can exceed.     *)

\* the loop "for message in reversed(messages)" from message i down to 1:
\* total is total_tokens, acc is truncated_messages
RECURSIVE truncate_walk(_, _, _, _, _, _)
truncate_walk(msgs, i, total, acc, max_tokens, margin) ==
    IF i = 0 THEN acc
    ELSE LET message_tokens == SplitLen(msgs[i].content)
         IN  IF total + message_tokens + margin <= max_tokens
             THEN truncate_walk(msgs, i - 1, total + message_tokens,
                                <<msgs[i]>> \o acc, max_tokens, margin)
             ELSE acc  \* break

\* faulty variant: skip the message that does not fit and continue with older ones
RECURSIVE truncate_walk_skip(_, _, _, _, _, _)
truncate_walk_skip(msgs, i, total, acc, max_tokens, margin) ==
    IF i = 0 THEN acc
    ELSE LET message_tokens == SplitLen(msgs[i].content)
         IN  IF total + message_tokens + margin <= max_tokens
             THEN truncate_walk_skip(msgs, i - 1, total + message_tokens,
                                     <<msgs[i]>> \o acc, max_tokens, margin)
             ELSE truncate_walk_skip(msgs, i - 1, total, acc, max_tokens, margin)

\* faulty variant: append() instead of insert(0, ...), the window comes out newest first
RECURSIVE truncate_walk_append(_, _, _, _, _, _)
truncate_walk_append(msgs, i, total, acc, max_tokens, margin) ==
    IF i = 0 THEN acc
    ELSE LET message_tokens == SplitLen(msgs[i].content)
         IN  IF total + message_tokens + margin <= max_tokens
             THEN truncate_walk_append(msgs, i - 1, total + message_tokens,
                                       Append(acc, msgs[i]), max_tokens, margin)
             ELSE acc

truncate_messages_skip(msgs, max_tokens, margin) ==
    truncate_walk_skip(msgs, Len(msgs), 0, <<>>, max_tokens, margin)

truncate_messages_append(msgs, max_tokens, margin) ==
    truncate_walk_append(msgs, Len(msgs), 0, <<>>, max_tokens, margin)

truncate_messages(msgs, max_tokens, margin) ==
    truncate_walk(msgs, Len(msgs), 0, <<>>, max_tokens, margin)

----------------------------------------------------------------------------
(* Responses of the completion endpoint.                                   *)
(*   handle  FALSE: requests.post raised RequestException and make_request *)
(*           returned None (src/chatbot.py:58-60)                          *)
(*   ok      Response.ok, which is also the truth value of a Response      *)
(*   json    the body parses as JSON; data is the parsed body              *)
(*   lines   what iter_lines() yields; raises: iter_lines() raises a       *)
(*           RequestException once the lines have been yielded             *)

EmptyDict == <<>>

NoResponse == [handle |-> FALSE, ok |-> FALSE, json |-> FALSE, data |-> EmptyDict]

Buffered(ok, json, data) == [handle |-> TRUE, ok |-> ok, json |-> json, data |-> data]

NoStream == [handle |-> FALSE, ok |-> FALSE, lines |-> <<>>, raises |-> FALSE]

Stream(ok, lines, raises) == [handle |-> TRUE, ok |-> ok, lines |-> lines, raises |-> raises]

\* "if response:" -- None is false, and a Response is true exactly when it is ok
Truthy(response) == response.handle /\ response.ok

\* a body {"choices": [{"message": {"content": content}}]}
Completion(content) == [choices |-> <<[message |-> [content |-> content]]>>]

Has(dict, key) == key \in DOMAIN dict

\* "response_data and "choices" in response_data and response_data["choices"]"
HasChoices(data) == data # EmptyDict /\ Has(data, "choices") /\ data.choices # <<>>

\* the exception response_data["choices"][0]["message"]["content"] raises
ContentError(data) ==
    IF ~Has(data.choices[1], "message") THEN "KeyError"
    ELSE IF ~Has(data.choices[1].message, "content") THEN "KeyError"
    ELSE "none"

DEFAULT_GREETING ==
    <<"Hello!", " ", "How", " ", "can", " ", "I", " ", "help", " ", "you", " ",
      "today?", " ", "(U+1F60A)">>

ERROR_RESPONSE ==
    <<"An", " ", "error", " ", "occurred", " ", "while", " ", "processing", " ",
      "your", " ", "request.">>

Returned(value) == [raised |-> "none", value |-> value]

Raised(exception) == [raised |-> exception, value |-> <<>>]

----------------------------------------------------------------------------
(* log_and_return_response, src/chatbot.py:44-52 *)

log_and_return_response(response) ==
    IF ~response.ok THEN Raised("HTTPError")            \* raise_for_status()
    ELSE IF ~response.json THEN Raised("JSONDecodeError")  \* response.json()
    ELSE IF HasChoices(response.data)
         THEN IF ContentError(response.data) # "none"
              THEN Raised(ContentError(response.data))
              ELSE Returned(response.data.choices[1].message.content)
         ELSE Returned(DEFAULT_GREETING)

(* generate_initial_message, src/chatbot.py:62-72 *)

generate_initial_message(response) ==
    IF Truthy(response) THEN log_and_return_response(response)
    ELSE Returned(DEFAULT_GREETING)

----------------------------------------------------------------------------
(* The follow-up completion's content string.  It is kept as its text (the *)
(* atoms "{" and "}" are the braces, the atoms between them stand for the  *)
(* member list) together with what json.loads makes of the stripped text:  *)
(* valid FALSE is a JSONDecodeError, otherwise values are the object's     *)
(* values in key order.  A JSON value is a string (str TRUE, with its      *)
(* text) or something else, a number or null (str FALSE).                  *)

JsonString(text) == [str |-> TRUE, text |-> text]

JsonNumber == [str |-> FALSE, text |-> <<>>]

Content(text, valid, values) == [text |-> text, valid |-> valid, values |-> values]

\* content.startswith("{") and content.endswith("}")
LooksLikeObject(text) == text # <<>> /\ Head(text) = "{" /\ text[Len(text)] = "}"

\* faulty variant: "if q" instead of "if q.strip()", whitespace-only values are kept
question_kept_unstripped(q) == q.text # <<>>

\* the filter "if q.strip()" of the list comprehension, src/chatbot.py:92
question_kept(q) == strip(q.text) # <<>>

RECURSIVE select_questions(_)
select_questions(values) ==
    IF values = <<>> THEN <<>>
    ELSE IF question_kept(Head(values))
         THEN <<Head(values).text>> \o select_questions(Tail(values))
         ELSE select_questions(Tail(values))

\* the try block, src/chatbot.py:87-96
parse_questions(data) ==
    IF ContentError(data) # "none" THEN Returned(<<>>)       \* KeyError is caught
    ELSE LET content == data.choices[1].message.content
         IN  IF LooksLikeObject(strip(content.text))
             THEN IF ~content.valid THEN Returned(<<>>)      \* JSONDecodeError is caught
                  ELSE IF \E i \in 1..Len(content.values) : ~content.values[i].str
                       THEN Raised("AttributeError")        \* q.strip() of a non-string
                       ELSE Returned(select_questions(content.values))
             ELSE Returned(<<>>)

FOLLOW_UP_PROMPT == <<"Generate", " ", "up", " ", "to", " ", "four", " ", "follow-up", " ", "questions">>

MARKDOWN_PROMPT == <<"You", " ", "can", " ", "use", " ", "Markdown", " ", "and", " ", "emojis">>

\* payload["messages"], src/chatbot.py:78 and 103
request_messages(msgs, prompt) ==
    truncate_messages(msgs, MAX_TOKENS, TOKEN_MARGIN) \o <<Message("system", prompt)>>

(* generate_follow_up_questions, src/chatbot.py:74-97 *)

(* The result also holds the messages of the request that was sent.        *)

generate_follow_up_questions(msgs, response) ==
    LET questions ==
            IF Truthy(response)
            THEN IF ~response.json THEN Raised("JSONDecodeError")   \* response.json(), line 84
                 ELSE IF HasChoices(response.data) THEN parse_questions(response.data)
                      ELSE Returned(<<>>)
            ELSE Returned(<<>>)
    IN  [raised |-> questions.raised, value |-> questions.value,
         sent |-> request_messages(msgs, FOLLOW_UP_PROMPT)]

----------------------------------------------------------------------------
(* The streamed response.  A line is                                       *)
(*   raw "empty"  an empty line                                            *)
(*   raw "done"   the line "data: [DONE]"                                  *)
(*   raw "data"   a line "data: <payload>"; json FALSE: the payload is not *)
(*                JSON, otherwise data is the parsed payload               *)
(*   raw "other"  any other non-empty line                                 *)

Line(raw, json, data) == [raw |-> raw, json |-> json, data |-> data]

EmptyLine == Line("empty", FALSE, EmptyDict)

DoneLine == Line("done", FALSE, EmptyDict)

OtherLine == Line("other", FALSE, EmptyDict)

BadJsonLine == Line("data", FALSE, EmptyDict)

DataLine(data) == Line("data", TRUE, data)

\* a record {"choices": [{"delta": {"content": text}}]}
Delta(text) == DataLine([choices |-> <<[delta |-> [content |-> text]]>>])

\* "delta" in choice and "content" in choice["delta"], for the first choice
HasDelta(line) ==
    /\ line.raw = "data" /\ line.json
    /\ Has(line.data, "choices") /\ line.data.choices # <<>>
    /\ Has(line.data.choices[1], "delta")
    /\ Has(line.data.choices[1].delta, "content")

DeltaText(line) == line.data.choices[1].delta.content

\* faulty variant: "full_response = ..." instead of "full_response += ..."
stream_line_replace(acc, line) ==
    IF line.raw = "done" THEN [acc EXCEPT !.stop = TRUE]
    ELSE IF HasDelta(line)
         THEN [acc EXCEPT !.full = DeltaText(line),
                          !.shown = Append(acc.shown, DeltaText(line))]
         ELSE acc

\* one pass of the loop body, src/chatbot.py:114-131: acc.full is full_response,
\* acc.shown the texts handed to response_container.markdown, acc.stop the break
stream_line(acc, line) ==
    IF line.raw = "done" THEN [acc EXCEPT !.stop = TRUE]
    ELSE IF HasDelta(line)
         THEN [acc EXCEPT !.full = acc.full \o DeltaText(line),
                          !.shown = Append(acc.shown, acc.full \o DeltaText(line))]
         ELSE acc

RECURSIVE iter_lines(_, _, _)
iter_lines(lines, i, acc) ==
    IF acc.stop \/ i > Len(lines) THEN acc
    ELSE iter_lines(lines, i + 1, stream_line(acc, lines[i]))

\* faulty variant: the error string is added to the partial text
stream_end_keep_partial(acc, raises) ==
    IF ~acc.stop /\ raises
    THEN [acc EXCEPT !.full = acc.full \o ERROR_RESPONSE, !.error = TRUE]
    ELSE acc

\* the except clause, src/chatbot.py:132-136: the iteration raised before a break
stream_end(acc, raises) ==
    IF ~acc.stop /\ raises
    THEN [acc EXCEPT !.full = ERROR_RESPONSE, !.error = TRUE]
    ELSE acc

NoText == [full |-> <<>>, shown |-> <<>>, stop |-> FALSE, error |-> FALSE]

\* src/chatbot.py:110-136
assemble(response) ==
    IF Truthy(response)
    THEN stream_end(iter_lines(response.lines, 1, NoText), response.raises)
    ELSE NoText

\* faulty variant: an empty final response is not recorded
commit_nonempty(msgs, full_response) ==
    IF full_response = <<>> THEN msgs
    ELSE Append(msgs, Message("assistant", full_response))

\* st.session_state.messages.append(...), src/chatbot.py:139
commit(msgs, full_response) == Append(msgs, Message("assistant", full_response))

(* process_llm_response, src/chatbot.py:99-143.  The result holds the      *)
(* session's messages and suggestions as the call leaves them, the         *)
(* exception that escapes it, and what it sent and displayed.              *)

process_llm_response(msgs, sugg, response, follow_response) ==
    LET text == assemble(response)
        log == commit(msgs, text.full)
        follow_up_questions == generate_follow_up_questions(log, follow_response)
    IN  [messages |-> log,
         suggestions |-> IF follow_up_questions.raised = "none"
                         THEN follow_up_questions.value ELSE sugg,
         raised |-> follow_up_questions.raised,
         full_response |-> text.full,
         shown |-> text.shown,
         error_shown |-> text.error,
         sent |-> request_messages(msgs, MARKDOWN_PROMPT)]

----------------------------------------------------------------------------
(* The session before its first script run, src/chatbot.py:164-171 *)

NotClicked == [pending |-> FALSE, text |-> <<>>]

SessionInit ==
    /\ messages = <<>>
    /\ suggestions = <<>>
    /\ follow_up_clicked = FALSE
    /\ init = FALSE
    /\ rerun = FALSE
    /\ welcome = [called |-> FALSE]
    /\ crashed = "none"
    /\ clicked = NotClicked

NotCalled == [done |-> FALSE]

BoundedSeq(S, n) == UNION {[1..k -> S] : k \in 0..n}

----------------------------------------------------------------------------
(* truncate_messages applied to every short log under every small budget *)

MaxLog == 3

MaxBudget == 4

TruncContents == {<<>>, <<"a">>, <<"a", " ", "b">>, <<" ", "a", "b", "\n", "c", " ", "d">>}

TruncMessages ==
    {Message("user", c) : c \in TruncContents} \cup {Message("assistant", <<"a">>)}

Budgets == [max_tokens : 0..MaxBudget, margin : 0..MaxBudget]

TruncInit ==
    /\ SessionInit
    /\ input \in {[log |-> l, max_tokens |-> b.max_tokens, margin |-> b.margin] :
                    l \in BoundedSeq(TruncMessages, MaxLog), b \in Budgets}
    /\ output = NotCalled

Truncate ==
    /\ ~output.done
    /\ LET window == truncate_messages(input.log, input.max_tokens, input.margin)
       IN  output' = [done |-> TRUE,
                      window |-> window,
                      again |-> truncate_messages(window, input.max_tokens, input.margin)]
    /\ UNCHANGED <<input, session_vars>>

TruncSpec == TruncInit /\ [][Truncate]_vars

RECURSIVE Cost(_)
Cost(msgs) == IF msgs = <<>> THEN 0 ELSE SplitLen(Head(msgs).content) + Cost(Tail(msgs))

Suffixes(log) == {SubSeq(log, k, Len(log)) : k \in 1..(Len(log) + 1)}

Fits(msgs) == Cost(msgs) + input.margin <= input.max_tokens

\* C1: truncate_messages returns the longest suffix of the log, in the log's order,
\* whose word counts plus the margin fit max_tokens; the walk stops at the first
\* message that does not fit, so the window is empty for an empty log and when the
\* newest message alone does not fit.  (A margin above max_tokens, which the
\* program's TOKEN_MARGIN is not, lets nothing fit: the window is empty.)
C1_LongestFittingSuffix ==
    output.done =>
        LET log == input.log
            window == output.window
        IN  /\ window \in Suffixes(log)
            /\ input.margin <= input.max_tokens => Fits(window)
            /\ input.margin > input.max_tokens => window = <<>>
            /\ \A s \in Suffixes(log) : Fits(s) => Len(s) <= Len(window)
            /\ Len(window) < Len(log) => ~Fits(<<log[Len(log) - Len(window)]>> \o window)
            /\ log = <<>> => window = <<>>
            /\ (log # <<>> /\ ~Fits(<<log[Len(log)]>>)) => window = <<>>

C1_Witness ==
    /\ output.done
    /\ Len(output.window) = 2
    /\ Len(input.log) = 3
    /\ Fits(<<input.log[1]>>)

\* C10: truncating the truncated window again, with the same budget, returns it.
C10_Idempotent == output.done => output.again = output.window

C10_Witness ==
    /\ output.done
    /\ Len(output.window) = 2
    /\ Len(input.log) = 3
    /\ output.window[1] # output.window[2]
    /\ output.again = output.window

----------------------------------------------------------------------------
(* process_llm_response applied to every short stream *)

MaxLines == 4

Hel == <<"Hel">>

lo == <<"lo,", " ", "world">>

\* a JSON record without choices is DataLine(EmptyDict), one whose first choice has
\* no delta is DataLine([choices |-> <<EmptyDict>>])
LineKinds ==
    {EmptyLine, DoneLine, OtherLine, BadJsonLine, DataLine([choices |-> <<EmptyDict>>]),
     Delta(Hel), Delta(lo)}

Streams ==
    {NoStream, Stream(FALSE, <<Delta(Hel)>>, FALSE)}
        \cup {Stream(TRUE, l, r) : l \in BoundedSeq(LineKinds, MaxLines), r \in BOOLEAN}

Hi == <<"Hi">>

Q1 == <<"A?">>

Q2 == <<"B?">>

Braces == <<"{", "members", "}">>

TwoQuestions == Buffered(TRUE, TRUE, Completion(Content(Braces, TRUE, <<JsonString(Q1), JsonString(Q2)>>)))

NotJson == Buffered(TRUE, FALSE, EmptyDict)

StreamLogs ==
    {<<Message("user", Hi)>>,
     <<Message("assistant", DEFAULT_GREETING), Message("user", Hi)>>}

StreamInit ==
    /\ SessionInit
    /\ input \in [log : StreamLogs, suggestions : {<<Q1>>}, response : Streams,
                   follow_response : {NoResponse, NotJson, TwoQuestions}]
    /\ output = NotCalled

Process ==
    /\ ~output.done
    /\ output' = [done |-> TRUE,
                  result |-> process_llm_response(input.log, input.suggestions,
                                                  input.response, input.follow_response)]
    /\ UNCHANGED <<input, session_vars>>

StreamSpec == StreamInit /\ [][Process]_vars

Last(seq) == seq[Len(seq)]

IsPrefix(s, t) == Len(s) <= Len(t) /\ SubSeq(t, 1, Len(s)) = s

\* the lines read before the end sentinel
BeforeDone(lines) ==
    LET dones == {i \in 1..Len(lines) : lines[i] = DoneLine}
    IN  IF dones = {} THEN lines
        ELSE SubSeq(lines, 1, (CHOOSE i \in dones : \A j \in dones : i <= j) - 1)

\* the delta texts of the well-formed records among the lines, in order
RECURSIVE DeltaTexts(_)
DeltaTexts(lines) ==
    IF lines = <<>> THEN <<>>
    ELSE DeltaTexts(SubSeq(lines, 1, Len(lines) - 1))
            \o (IF HasDelta(Last(lines)) THEN <<DeltaText(Last(lines))>> ELSE <<>>)

RECURSIVE Concat(_)
Concat(texts) == IF texts = <<>> THEN <<>> ELSE Head(texts) \o Concat(Tail(texts))

\* the iteration reaches the end of the lines and raises
RaisesMidStream(response) ==
    /\ Truthy(response) /\ response.raises
    /\ \A i \in 1..Len(response.lines) : response.lines[i] # DoneLine

\* C2: whatever the stream does, process_llm_response appends exactly one assistant
\* message to the log and leaves the messages already there as they were.
C2_AppendsOneAssistantMessage ==
    output.done =>
        LET before == input.log
            after == output.result.messages
        IN  /\ Len(after) = Len(before) + 1
            /\ SubSeq(after, 1, Len(before)) = before
            /\ Last(after).role = "assistant"

C2_Witness ==
    /\ output.done
    /\ ~input.response.handle
    /\ output.result.messages = Append(input.log, Message("assistant", <<>>))

\* C3: when the stream ends without a transport exception, the committed message is
\* the concatenation, in order, of the delta texts of the well-formed data records
\* before the end sentinel; the sink is called once per delta with the text so far,
\* so each displayed text is a prefix of the next.
C3_ConcatenatesDeltas ==
    (output.done /\ Truthy(input.response) /\ ~RaisesMidStream(input.response)) =>
        LET deltas == DeltaTexts(BeforeDone(input.response.lines))
            shown == output.result.shown
        IN  /\ Last(output.result.messages).content = Concat(deltas)
            /\ Len(shown) = Len(deltas)
            /\ \A k \in 1..Len(shown) : shown[k] = Concat(SubSeq(deltas, 1, k))
            /\ \A k \in 1..(Len(shown) - 1) : IsPrefix(shown[k], shown[k + 1])

C3_Witness ==
    /\ output.done
    /\ input.response = Stream(TRUE, <<Delta(Hel), BadJsonLine, Delta(lo), DoneLine>>, FALSE)
    /\ Last(output.result.messages).content = <<"Hel", "lo,", " ", "world">>
    /\ output.result.shown = <<Hel, <<"Hel", "lo,", " ", "world">> >>

\* C4: a transport exception raised while iterating the lines, after partial content
\* was displayed, commits the fixed error string and not the partial text.
C4_ErrorStringReplacesPartial ==
    (output.done /\ RaisesMidStream(input.response)
        /\ DeltaTexts(input.response.lines) # <<>>) =>
        /\ Last(output.result.messages).content = ERROR_RESPONSE
        /\ output.result.error_shown

C4_Witness ==
    /\ output.done
    /\ input.response = Stream(TRUE, <<Delta(Hel)>>, TRUE)
    /\ output.result.shown = <<Hel>>
    /\ Last(output.result.messages).content = ERROR_RESPONSE

----------------------------------------------------------------------------
(* generate_follow_up_questions applied to every kind of buffered response *)

MaxValues == 5

Values == {JsonString(Q1), JsonString(Q2), JsonString(<<>>), JsonString(<<" ">>), JsonNumber}

ContentTexts ==
    {Braces, <<" ", "{", "members", "}", "\n">>, <<"not", " ", "json">>, <<"{", "members">>}

\* json.loads only sees text that looks like an object; it rejects it or yields values
Contents ==
    {Content(t, FALSE, <<>>) : t \in ContentTexts}
        \cup {Content(t, TRUE, v) : t \in {u \in ContentTexts : LooksLikeObject(strip(u))},
                                    v \in BoundedSeq(Values, MaxValues)}

FollowResponses ==
    {NoResponse,
     Buffered(FALSE, TRUE, EmptyDict),                       \* an error status
     NotJson,
     Buffered(TRUE, TRUE, EmptyDict),                        \* {}
     Buffered(TRUE, TRUE, [choices |-> <<>>]),
     Buffered(TRUE, TRUE, [choices |-> <<EmptyDict>>]),      \* no message
     Buffered(TRUE, TRUE, [choices |-> <<[message |-> EmptyDict]>>])}  \* no content
        \cup {Buffered(TRUE, TRUE, Completion(c)) : c \in Contents}

FollowInit ==
    /\ SessionInit
    /\ input \in [log : StreamLogs, response : FollowResponses]
    /\ output = NotCalled

FollowUp ==
    /\ ~output.done
    /\ output' = [done |-> TRUE,
                  result |-> generate_follow_up_questions(input.log, input.response)]
    /\ UNCHANGED <<input, session_vars>>

FollowSpec == FollowInit /\ [][FollowUp]_vars

\* the response carries a completion whose content is a JSON object
IsObject(response) ==
    /\ Truthy(response) /\ response.json /\ HasChoices(response.data)
    /\ ContentError(response.data) = "none"
    /\ LooksLikeObject(strip(response.data.choices[1].message.content.text))
    /\ response.data.choices[1].message.content.valid

ObjectValues(response) == response.data.choices[1].message.content.values

NonBlank(text) == \E i \in 1..Len(text) : ~IsSpace(text[i])

TextOf(values) == [i \in 1..Len(values) |-> values[i].text]

\* C6: generate_follow_up_questions returns normally for every outcome of the
\* request, and returns the empty sequence whenever the response is missing, is not
\* JSON, or does not hold a JSON object of strings.
C6_NeverRaises ==
    output.done =>
        /\ output.result.raised = "none"
        /\ (~IsObject(input.response)
                \/ \E i \in 1..Len(ObjectValues(input.response)) :
                        ~ObjectValues(input.response)[i].str)
              => output.result.value = <<>>

\* C8: for a content that is, once trimmed, a JSON object of strings, the result is
\* the values that are not empty after stripping, in key order.
C8_KeepsNonBlankValuesInOrder ==
    (output.done /\ IsObject(input.response)
        /\ \A i \in 1..Len(ObjectValues(input.response)) :
                ObjectValues(input.response)[i].str) =>
        /\ output.result.raised = "none"
        /\ output.result.value = SelectSeq(TextOf(ObjectValues(input.response)), NonBlank)

C8_Witness ==
    /\ output.done
    /\ IsObject(input.response)
    /\ ObjectValues(input.response) = <<JsonString(Q1), JsonString(<<>>), JsonString(Q2)>>
    /\ output.result.value = <<Q1, Q2>>

----------------------------------------------------------------------------
(* The script, src/chatbot.py:160-226.  Streamlit runs it from the top for *)
(* every event of the session: the start of the session, a chat input, a   *)
(* pressed button, a rerun the script asked for.  An exception that        *)
(* escapes ends the run and leaves st.session_state as it is.              *)

MaxMessages == 7

Welcome == <<"Welcome!">>

Q3 == <<"C?">>

Q4 == <<"D?">>

Q5 == <<"E?">>

FiveQuestions ==
    Buffered(TRUE, TRUE, Completion(Content(Braces, TRUE,
        <<JsonString(Q1), JsonString(Q2), JsonString(Q3), JsonString(Q4), JsonString(Q5)>>)))

WelcomeResponses ==
    {NoResponse,
     Buffered(FALSE, TRUE, EmptyDict),                 \* an error status
     NotJson,
     Buffered(TRUE, TRUE, EmptyDict),                  \* no choices
     Buffered(TRUE, TRUE, [choices |-> <<>>]),
     Buffered(TRUE, TRUE, [choices |-> <<EmptyDict>>]),  \* a choice without message
     Buffered(TRUE, TRUE, Completion(Welcome))}

SessionStreams ==
    {NoStream,
     Stream(TRUE, <<Delta(Hel), Delta(lo), DoneLine>>, FALSE),
     Stream(TRUE, <<Delta(Hel)>>, TRUE)}

SessionFollowUps == {NoResponse, NotJson, TwoQuestions, FiveQuestions}

UserInputs == {Hi}

Session == [messages |-> messages, suggestions |-> suggestions,
            follow_up_clicked |-> follow_up_clicked, crashed |-> "none"]

\* a call of process_llm_response(st.session_state.messages) by the script
respond(s, response, follow_response) ==
    LET r == process_llm_response(s.messages, s.suggestions, response, follow_response)
    IN  [s EXCEPT !.messages = r.messages, !.suggestions = r.suggestions,
                  !.crashed = r.raised]

\* "Handle follow-up button click", src/chatbot.py:196-201
follow_up_block(s, response, follow_response) ==
    IF s.follow_up_clicked
    THEN LET t == respond(s, response, follow_response)
         IN  IF t.crashed = "none" THEN [t EXCEPT !.follow_up_clicked = FALSE] ELSE t
    ELSE s

\* "User input", src/chatbot.py:204-214
user_input_block(s, user_input, response, follow_response) ==
    IF s.crashed # "none" THEN s
    ELSE respond([s EXCEPT !.messages = Append(@, Message("user", user_input))],
                 response, follow_response)

\* the responses the first of two calls can get; none is asked for when it is not made
FirstStreams == IF follow_up_clicked THEN SessionStreams ELSE {NoStream}

FirstFollowUps == IF follow_up_clicked THEN SessionFollowUps ELSE {NoResponse}

Store(s) ==
    /\ messages' = s.messages
    /\ suggestions' = s.suggestions
    /\ follow_up_clicked' = s.follow_up_clicked
    /\ crashed' = s.crashed

\* the first run of the session, src/chatbot.py:174-177; nothing else in the
\* script acts in it: there are no suggestions, no click and no input yet
SessionStart ==
    /\ ~init /\ ~rerun
    /\ \E response \in WelcomeResponses :
          LET welcome_message == generate_initial_message(response)
          IN  /\ welcome' = [called |-> TRUE, response |-> response,
                             raised |-> welcome_message.raised]
              /\ messages' = IF welcome_message.raised = "none"
                             THEN Append(messages, Message("assistant", welcome_message.value))
                             ELSE messages
              /\ crashed' = welcome_message.raised
    /\ init' = TRUE
    /\ UNCHANGED <<suggestions, follow_up_clicked, rerun, clicked, input, output>>

\* a run started by a chat input: no button is pressed, a set flag is handled
\* first, then the input, and the last block shows the suggestions
ChatInput ==
    /\ init /\ ~rerun
    /\ Len(messages) + (IF follow_up_clicked THEN 3 ELSE 2) <= MaxMessages
    /\ \E user_input \in UserInputs, r1 \in FirstStreams, f1 \in FirstFollowUps,
          r2 \in SessionStreams, f2 \in SessionFollowUps :
          Store(user_input_block(follow_up_block(Session, r1, f1), user_input, r2, f2))
    /\ clicked' = NotClicked
    /\ UNCHANGED <<init, rerun, welcome, input, output>>

\* a run in which a button of the first block is the pressed one,
\* src/chatbot.py:185-193
ClickFollowUp ==
    /\ init /\ ~rerun
    /\ Len(messages) + 2 <= MaxMessages
    /\ ~follow_up_clicked /\ suggestions # <<>>
    /\ \E i \in 1..Len(suggestions) :
          /\ messages' = Append(messages, Message("user", suggestions[i]))
          /\ clicked' = [pending |-> TRUE, text |-> suggestions[i]]
    /\ follow_up_clicked' = TRUE
    /\ suggestions' = <<>>
    /\ rerun' = TRUE
    /\ crashed' = "none"
    /\ UNCHANGED <<init, welcome, input, output>>

\* a run in which a button of the last block is the pressed one,
\* src/chatbot.py:217-224: follow_up_clicked is false, or the page would show no
\* buttons, and there is no chat input, so the script gets there unchanged
ClickSuggestion ==
    /\ init /\ ~rerun
    /\ Len(messages) + 2 <= MaxMessages
    /\ ~follow_up_clicked /\ suggestions # <<>>
    /\ \E i \in 1..Len(suggestions) :
          /\ messages' = Append(messages, Message("user", suggestions[i]))
          /\ clicked' = [pending |-> TRUE, text |-> suggestions[i]]
    /\ suggestions' = <<>>
    /\ rerun' = TRUE
    /\ crashed' = "none"
    /\ UNCHANGED <<follow_up_clicked, init, welcome, input, output>>

\* the run st.experimental_rerun() asked for: no button is pressed and there is no
\* chat input, so only a set flag makes it call process_llm_response
Rerun ==
    /\ rerun
    /\ \E r1 \in FirstStreams, f1 \in FirstFollowUps :
          Store(follow_up_block(Session, r1, f1))
    /\ clicked' = IF follow_up_clicked THEN NotClicked ELSE clicked
    /\ rerun' = FALSE
    /\ UNCHANGED <<init, welcome, input, output>>

Init == SessionInit /\ input = NotCalled /\ output = NotCalled

Next == SessionStart \/ ChatInput \/ ClickFollowUp \/ ClickSuggestion \/ Rerun

Spec == Init /\ [][Next]_vars

\* the welcome request failed: no handle, an error status, a body that is not JSON
\* or not of the expected shape, or no choices
WelcomeFailed(response) ==
    \/ ~Truthy(response)
    \/ ~response.json
    \/ ~HasChoices(response.data)
    \/ ContentError(response.data) # "none"

\* C9: whenever its request fails the welcome generator returns the default greeting
\* and no exception escapes, and the log starts with one assistant message.
C9_WelcomeFallsBack ==
    init =>
        /\ welcome.raised = "none"
        /\ messages # <<>> /\ messages[1].role = "assistant"
        /\ WelcomeFailed(welcome.response) => messages[1].content = DEFAULT_GREETING

\* C7: the suggestion set never holds more than four strings.
C7_AtMostFourSuggestions == Len(suggestions) <= 4

====
